---- MODULE Spec2Model ----
(***************************************************************************)
(* Model of the two-stage motion planning pipeline:                        *)
(*   - a_star_search (src/path_planner.py): best-first search over a 3D    *)
(*     lattice with an environment oracle and a closed set keyed by the    *)
(*     coordinates rounded to one decimal;                                 *)
(*   - TrajectoryGenerator (src/trajectory_generator.py): deduplication,   *)
(*     time knots, and the sampling timestamps of solve(dt).               *)
(*                                                                         *)
(* Number representation.  Planner coordinates are integers counting       *)
(* units of 0.06, so that round(v, 1) never meets a tie and steps of       *)
(* 0.06 (below the 0.1 key resolution) and 0.12, 0.18 (above it) are all   *)
(* representable.  Costs g, h, f are fixed-point numbers with FScale       *)
(* sub-units per coordinate unit, square roots truncated.  Trajectory      *)
(* coordinates count units of 0.0004 (4e-4), distances are in 1e-6 units   *)
(* and times in 1e-9 units.                                                *)
(***************************************************************************)
EXTENDS Integers, Sequences, FiniteSets, Bags, TLC

VARIABLES
    \* ---- a_star_search ----
    obstacles,      \* env: the points for which env.is_collide holds
    start_pos,      \* argument start_pos
    goal_pos,       \* argument goal_pos
    step_size,      \* argument step_size
    pc,             \* "off" | "call" | "loop" | "done"
    open_list,      \* the priority queue, as the set of queued nodes (two
                    \* queued nodes never agree on position and parent chain)
    closed_set,     \* set of discretized keys
    ret,            \* the returned waypoint sequence
    expanded,       \* history: bag of <<key, g>> of the nodes whose neighbours
                    \* were generated (lines 92-116)
    skipped,        \* history: set of <<key, g>> of the nodes dropped at line 91
    env_queries,    \* number of env.is_outside calls made so far
    \* ---- TrajectoryGenerator ----
    tpc,            \* "off" | "new" | "ready" | "solved" | "raised"
    raw_path,       \* constructor argument path
    path,           \* self.path
    avg_speed,      \* self.avg_speed (0 while unset)
    time_knots,     \* self.time_knots
    cs_fit,         \* TRUE iff self.cs_x, self.cs_y, self.cs_z exist
    dt_arg,         \* argument dt of the last solve call (0 before)
    sol             \* value returned by the last solve call

plan_vars == <<obstacles, start_pos, goal_pos, step_size, pc, open_list,
               closed_set, ret, expanded, skipped, env_queries>>
traj_vars == <<tpc, raw_path, path, avg_speed, time_knots, cs_fit, dt_arg, sol>>
vars == <<plan_vars, traj_vars>>

----------------------------------------------------------------------------
(* Bounds *)
MaxX == 4
MaxY == 2
MaxZ == 2
MaxStep == 2
MaxObstacles == 4
MaxTX == 3
MaxLen == 4

----------------------------------------------------------------------------
(* Arithmetic helpers *)

RECURSIVE ISqrtBetween(_, _, _)
ISqrtBetween(n, lo, hi) ==
    IF lo >= hi THEN lo
    ELSE LET mid == (lo + hi + 1) \div 2
         IN  IF mid * mid <= n THEN ISqrtBetween(n, mid, hi)
                               ELSE ISqrtBetween(n, lo, mid - 1)

\* math.sqrt / np.sqrt, truncated to an integer
ISqrt(n) == ISqrtBetween(n, 0, IF n < 46340 THEN n ELSE 46340)

Sq(a) == a * a

Dist2(p, q) == Sq(p[1] - q[1]) + Sq(p[2] - q[2]) + Sq(p[3] - q[3])

FScale == 100

\* the largest squared distance between two points the planner can compare
MaxDist2 == Sq(MaxX + MaxStep) + Sq(MaxY + MaxStep) + Sq(MaxZ + MaxStep)

\* math.sqrt on a squared distance, in 1/FScale coordinate units, tabulated
SqrtTable == [d2 \in 0..MaxDist2 |-> ISqrt(d2 * FScale * FScale)]

\* get_dist(pos1, pos2): Euclidean distance, in 1/FScale coordinate units
get_dist(pos1, pos2) == SqrtTable[Dist2(pos1, pos2)]

\* round(v, 1) for v counted in units of 0.06; the result counts tenths.
\* 6*v/100 is never halfway between two tenths, so nearest = floor(x + 1/2).
Round1(v) == (6 * v + 5) \div 10

----------------------------------------------------------------------------
(* Environment oracle *)

Box == (0..MaxX) \X (0..MaxY) \X (0..MaxZ)

is_outside(p) == p \notin Box

is_collide(p) == p \in obstacles

----------------------------------------------------------------------------
(* Node and the pieces of a_star_search *)

\* Node(x, y, z, g, h, parent): parent is the chain of ancestor positions,
\* start first (<< >> stands for None).
Node(x, y, z, g, h, parent) ==
    [x |-> x, y |-> y, z |-> z, g |-> g, h |-> h, f |-> g + h, parent |-> parent]

get_pos(n) == <<n.x, n.y, n.z>>

\* the 26 offsets with each axis in {-step, 0, +step}, all-zero skipped
Movements(step) ==
    { m \in {-step, 0, step} \X {-step, 0, step} \X {-step, 0, step} :
        ~(m[1] = 0 /\ m[2] = 0 /\ m[3] = 0) }

\* the goal test with "<=" in place of "<"
NearGoalInclusive(n) == get_dist(get_pos(n), goal_pos) <= step_size * FScale

\* the test "get_dist(current, goal) < step_size"
NearGoal(n) == get_dist(get_pos(n), goal_pos) < step_size * FScale

node_key(n) == <<Round1(n.x), Round1(n.y), Round1(n.z)>>

\* the neighbour checks without the collision query
BlockedOutsideOnly(new_pos) == is_outside(new_pos)

\* the two "continue" checks on a neighbour position
Blocked(new_pos) == is_outside(new_pos) \/ is_collide(new_pos)

\* heapq.heappop candidates: queued nodes that no other node is less than
\* (Node.__lt__ compares f), i.e. the nodes of least f; the order among
\* equal f is left open
MinNodes == { n \in open_list : \A o \in open_list : n.f <= o.f }

\* the closed-set test never succeeding
AlreadyClosedNever(n) == FALSE

\* line 90: "node_key in closed_set"
AlreadyClosed(n) == node_key(n) \in closed_set

\* minimal nodes that the loop would drop at lines 90-91
Skippable == { n \in MinNodes : ~NearGoal(n) /\ AlreadyClosed(n) }

\* the node created for one movement out of current
NewNode(cur, m) ==
    LET new_pos == <<cur.x + m[1], cur.y + m[2], cur.z + m[3]>>
        g_cost  == cur.g + SqrtTable[Sq(m[1]) + Sq(m[2]) + Sq(m[3])]
        h_cost  == get_dist(new_pos, goal_pos)
    IN  Node(new_pos[1], new_pos[2], new_pos[3], g_cost, h_cost,
             Append(cur.parent, get_pos(cur)))

\* the neighbour loop querying the environment about the current position
\* instead of the new one
NeighboursCheckingCurrent(cur) ==
    { NewNode(cur, m) : m \in { mm \in Movements(step_size) : ~Blocked(get_pos(cur)) } }

Neighbours(cur) ==
    { NewNode(cur, m) : m \in { mm \in Movements(step_size) :
          ~Blocked(<<cur.x + mm[1], cur.y + mm[2], cur.z + mm[3]>>) } }

\* reconstruct_path(node): follow parent links and reverse
reconstruct_path(n) == Append(n.parent, get_pos(n))

----------------------------------------------------------------------------
(* Inputs of a_star_search *)

\* zero, the positive steps up to MaxStep, and one negative step
StepChoices == {-MaxStep} \cup (0..MaxStep)

StartChoices == {<<0, 0, 0>>, <<1, 0, 0>>}

GoalChoices == {<<0, 0, 0>>, <<MaxX - 1, MaxY, 0>>, <<MaxX, MaxY, MaxZ>>}

\* candidate obstacle points: the start <<0, 0, 0>> and the points of the
\* plane x = 2 that lie on the 0.12 lattice through <<0, 0, 0>>
Sites ==
    {<<0, 0, 0>>} \cup { c \in Box : c[1] = 2 /\ c[2] % 2 = 0 /\ c[3] % 2 = 0 }

\* a full wall across the box at x = wx
Wall(wx) == { c \in Box : c[1] = wx }

ObstacleChoices ==
    { S \in SUBSET Sites : Cardinality(S) <= MaxObstacles }
        \cup { Wall(wx) : wx \in 1..(MaxX - 1) }

TrajIdle ==
    /\ tpc = "off"
    /\ raw_path = << >>
    /\ path = << >>
    /\ avg_speed = 0
    /\ time_knots = << >>
    /\ cs_fit = FALSE
    /\ dt_arg = 0
    /\ sol = << >>

InitPlan ==
    /\ obstacles \in ObstacleChoices
    /\ start_pos \in StartChoices
    /\ goal_pos \in GoalChoices
    /\ step_size \in StepChoices
    /\ pc = "call"
    /\ open_list = {}
    /\ closed_set = {}
    /\ ret = << >>
    /\ expanded = EmptyBag
    /\ skipped = {}
    /\ env_queries = 0
    /\ TrajIdle

----------------------------------------------------------------------------
(* a_star_search, one action per path through the loop body *)

\* lines 57-75: build the start node, push it, build the movement list
Call ==
    /\ pc = "call"
    /\ open_list' = { Node(start_pos[1], start_pos[2], start_pos[3],
                           0, get_dist(start_pos, goal_pos), << >>) }
    /\ closed_set' = {}
    /\ pc' = "loop"
    /\ UNCHANGED <<obstacles, start_pos, goal_pos, step_size, ret, expanded,
                   skipped, env_queries>>
    /\ UNCHANGED traj_vars

\* lines 79-85: pop; the node is within step of the goal; return the path
ReachGoal ==
    /\ pc = "loop"
    /\ \E n \in MinNodes :
         /\ NearGoal(n)
         /\ open_list' = open_list \ {n}
         /\ LET goal_node ==
                    [Node(goal_pos[1], goal_pos[2], goal_pos[3], 0, 0, << >>)
                        EXCEPT !.parent = Append(n.parent, get_pos(n)),
                               !.g = n.g + get_dist(get_pos(n), goal_pos)]
            IN  ret' = reconstruct_path(goal_node)
    /\ pc' = "done"
    /\ UNCHANGED <<obstacles, start_pos, goal_pos, step_size, closed_set,
                   expanded, skipped, env_queries>>
    /\ UNCHANGED traj_vars

\* lines 79-91: pop; not at the goal; key already closed; continue.
\* Popping such a node changes nothing but the open list, so among several
\* minimal nodes of this kind the order of their extraction is immaterial
\* and one fixed order is taken; Expand and ReachGoal stay free to take any
\* minimal node first.
SkipClosed ==
    /\ pc = "loop"
    /\ Skippable # {}
    /\ LET n == CHOOSE m \in Skippable : TRUE
       IN  /\ open_list' = open_list \ {n}
           /\ skipped' = skipped \cup {<<node_key(n), n.g>>}
    /\ UNCHANGED <<obstacles, start_pos, goal_pos, step_size, pc, closed_set,
                   ret, expanded, env_queries>>
    /\ UNCHANGED traj_vars

\* lines 79-116: pop; not at the goal; close the key; push valid neighbours
Expand ==
    /\ pc = "loop"
    /\ \E n \in MinNodes :
         /\ ~NearGoal(n)
         /\ ~AlreadyClosed(n)
         /\ closed_set' = closed_set \cup {node_key(n)}
         /\ open_list' = (open_list \ {n}) \cup Neighbours(n)
         /\ expanded' = expanded (+) SetToBag({<<node_key(n), n.g>>})
         /\ env_queries' = env_queries + Cardinality(Movements(step_size))
    /\ UNCHANGED <<obstacles, start_pos, goal_pos, step_size, pc, ret, skipped>>
    /\ UNCHANGED traj_vars

\* lines 77, 118-119: the open list is empty; return []
Fail ==
    /\ pc = "loop"
    /\ open_list = {}
    /\ ret' = << >>
    /\ pc' = "done"
    /\ UNCHANGED <<obstacles, start_pos, goal_pos, step_size, open_list,
                   closed_set, expanded, skipped, env_queries>>
    /\ UNCHANGED traj_vars

NextPlan == Call \/ ReachGoal \/ SkipClosed \/ Expand \/ Fail

SpecPlan == InitPlan /\ [][NextPlan]_vars

\* the loop is sequential code: it keeps running until it returns
FairPlan == SpecPlan /\ WF_vars(NextPlan)

----------------------------------------------------------------------------
(* TrajectoryGenerator *)

\* "dists > 1e-3" for two points counted in units of 4e-4:
\* sqrt(d2) * 4e-4 > 1e-3  <=>  16 * d2 > 100
FarApart(p, q) == 4 * Dist2(p, q) > 25

\* line 42: keep the first point and every point far from its predecessor
\* in the raw input
Mask(raw) == [i \in 1..Len(raw) |-> IF i = 1 THEN TRUE ELSE FarApart(raw[i], raw[i - 1])]

RECURSIVE Compress(_, _, _)
\* raw_path[mask], from index i on
Compress(raw, mask, i) ==
    IF i > Len(raw) THEN << >>
    ELSE (IF mask[i] THEN <<raw[i]>> ELSE << >>) \o Compress(raw, mask, i + 1)

\* lines 33-46
Preprocess(raw) == IF Len(raw) > 0 THEN Compress(raw, Mask(raw), 1) ELSE raw

\* the length check with 1 in place of 2
TooFewInitOffByOne(p) == Len(p) < 1

\* line 49: "if len(self.path) < 2"
TooFewInit(p) == Len(p) < 2

\* line 77: "if len(self.path) < 2"
TooFewSolve(p) == Len(p) < 2

\* the distances left without the floor
FloorDistNone(d) == d

\* line 70: np.maximum(distances, 1e-6), distances counted in 1e-6
FloorDist(d) == IF d < 1 THEN 1 ELSE d

\* lines 66-67: np.sqrt of a squared distance counted in (4e-4)^2, in 1e-6
DistTable == [d2 \in 0..(Sq(MaxTX) + 2) |-> ISqrt(d2 * 400 * 400)]

\* lines 66-72: duration of the segment p -> q, in 1e-9
SegmentTime(p, q, speed) == (FloorDist(DistTable[Dist2(p, q)]) * 1000) \div speed

RECURSIVE CumSum(_, _, _, _)
\* np.cumsum of the segment times, from segment i on, starting at acc
CumSum(p, speed, i, acc) ==
    IF i >= Len(p) THEN << >>
    ELSE LET t == acc + SegmentTime(p[i], p[i + 1], speed)
         IN  <<t>> \o CumSum(p, speed, i + 1, t)

\* _calculate_time_knots
calculate_time_knots(p, speed) == <<0>> \o CumSum(p, speed, 1, 0)

\* CubicSpline(x, y, bc_type='clamped') raises ValueError unless x has at
\* least two elements, matches y in length and is strictly increasing
CubicSplineAccepts(x, y) ==
    /\ Len(x) >= 2
    /\ Len(x) = Len(y)
    /\ \A i \in 1..(Len(x) - 1) : x[i] < x[i + 1]

\* np.arange(0, stop, step) for step > 0
Arange(stop, step) ==
    IF stop <= 0 THEN << >>
    ELSE [i \in 1..((stop + step - 1) \div step) |-> (i - 1) * step]

\* the final knot time never appended
AppendFinalNever(t_eval, total_time) == t_eval

\* lines 84-85
AppendFinal(t_eval, total_time) ==
    IF t_eval[Len(t_eval)] < total_time THEN Append(t_eval, total_time) ELSE t_eval

\* self.cs_x(t_eval) etc.: one value per timestamp (kept symbolic)
SplineEval(axis, t_eval) == [i \in 1..Len(t_eval) |-> <<axis, t_eval[i]>>]

\* sample waypoints: the points of a stretch of the x axis and two points
\* off the axis
Points == { <<x, 0, 0>> : x \in 0..MaxTX } \cup {<<0, 1, 0>>, <<1, 0, 1>>}

RECURSIVE SeqsOfLen(_)
SeqsOfLen(n) ==
    IF n = 0 THEN {<< >>}
    ELSE { Append(q, pt) : q \in SeqsOfLen(n - 1), pt \in Points }

PathChoices == UNION { SeqsOfLen(n) : n \in 0..MaxLen }

SpeedChoices == {1, 2}

\* sampling steps, in 1e-9: multiples of 0.0002
DtChoices == {200000, 400000, 600000}

PlanIdle ==
    /\ obstacles = {}
    /\ start_pos = <<0, 0, 0>>
    /\ goal_pos = <<0, 0, 0>>
    /\ step_size = 0
    /\ pc = "off"
    /\ open_list = {}
    /\ closed_set = {}
    /\ ret = << >>
    /\ expanded = EmptyBag
    /\ skipped = {}
    /\ env_queries = 0

InitTraj ==
    /\ tpc = "new"
    /\ raw_path = << >>
    /\ path = << >>
    /\ avg_speed = 0
    /\ time_knots = << >>
    /\ cs_fit = FALSE
    /\ dt_arg = 0
    /\ sol = << >>
    /\ PlanIdle

\* __init__, fewer than 2 points left: lines 30-53
ConstructDegenerate ==
    /\ tpc = "new"
    /\ \E p \in PathChoices, speed \in SpeedChoices :
         /\ TooFewInit(Preprocess(p))
         /\ raw_path' = p
         /\ path' = Preprocess(p)
         /\ time_knots' = <<0>>
         /\ tpc' = "ready"
    /\ UNCHANGED <<avg_speed, cs_fit, dt_arg, sol>>
    /\ UNCHANGED plan_vars

\* __init__, at least 2 points left: lines 30-46, 55-62
ConstructFit ==
    /\ tpc = "new"
    /\ \E p \in PathChoices, speed \in SpeedChoices :
         /\ ~TooFewInit(Preprocess(p))
         /\ raw_path' = p
         /\ path' = Preprocess(p)
         /\ avg_speed' = speed
         /\ time_knots' = calculate_time_knots(Preprocess(p), speed)
         /\ IF CubicSplineAccepts(time_knots', path')
            THEN cs_fit' = TRUE /\ tpc' = "ready"
            ELSE cs_fit' = FALSE /\ tpc' = "raised"
    /\ UNCHANGED <<dt_arg, sol>>
    /\ UNCHANGED plan_vars

\* solve(dt) on too few points: lines 77-78
SolveEmpty ==
    /\ tpc \in {"ready", "solved"}
    /\ TooFewSolve(path)
    /\ \E dt \in DtChoices : dt_arg' = dt
    /\ sol' = << << >>, << >>, << >>, << >> >>
    /\ tpc' = "solved"
    /\ UNCHANGED <<raw_path, path, avg_speed, time_knots, cs_fit>>
    /\ UNCHANGED plan_vars

\* solve(dt) otherwise: lines 80-91.  t_eval[-1] raises IndexError on an
\* empty t_eval, self.cs_x raises AttributeError when no spline was fit.
SolveSample ==
    /\ tpc \in {"ready", "solved"}
    /\ ~TooFewSolve(path)
    /\ \E dt \in DtChoices :
         LET total_time == time_knots[Len(time_knots)]
             t_eval     == Arange(total_time, dt)
         IN  /\ dt_arg' = dt
             /\ IF t_eval = << >> \/ ~cs_fit
                THEN tpc' = "raised" /\ sol' = sol
                ELSE LET t_all == AppendFinal(t_eval, total_time)
                     IN  /\ sol' = <<t_all, SplineEval("x", t_all),
                                     SplineEval("y", t_all), SplineEval("z", t_all)>>
                         /\ tpc' = "solved"
    /\ UNCHANGED <<raw_path, path, avg_speed, time_knots, cs_fit>>
    /\ UNCHANGED plan_vars

NextTraj == ConstructDegenerate \/ ConstructFit \/ SolveEmpty \/ SolveSample

SpecTraj == InitTraj /\ [][NextTraj]_vars

----------------------------------------------------------------------------
(* Properties of a_star_search *)

\* the free in-boundary positions one offset away from a position of F
Around(F) ==
    { q \in { <<p[1] + dx, p[2] + dy, p[3] + dz>> :
                p \in F, dx \in {-step_size, 0, step_size},
                dy \in {-step_size, 0, step_size}, dz \in {-step_size, 0, step_size} } :
        q \in Box /\ q \notin obstacles }

RECURSIVE Closure(_, _)
\* seen, closed under Around, given that only frontier may have new neighbours
Closure(seen, frontier) ==
    LET fresh == Around(frontier) \ seen
    IN  IF fresh = {} THEN seen ELSE Closure(seen \cup fresh, fresh)

\* the positions the search could ever generate: closure of {start} under
\* the 26 offsets through points that are inside the boundary and free
Generated == Closure({start_pos}, {start_pos})

\* no generated position is within step of the goal
GoalUnreachable ==
    \A p \in Generated : ~(step_size > 0 /\ Dist2(p, goal_pos) < Sq(step_size))

Valid(p) == p \in Box /\ p \notin obstacles

\* C1: with step > 0, no obstacles, start and goal inside the boundary, the
\* call returns a non-empty path that starts within step of the start and
\* ends within step of the goal.
C1_ObstacleFreeFindsPath ==
    (pc = "done" /\ step_size > 0 /\ obstacles = {}
        /\ start_pos \in Box /\ goal_pos \in Box)
    => /\ ret # << >>
       /\ Dist2(ret[1], start_pos) <= Sq(step_size)
       /\ Dist2(ret[Len(ret)], goal_pos) <= Sq(step_size)

\* C2: a call made when no generated position can come within step of the
\* goal eventually returns, and returns the empty sequence.
C2_UnreachableTerminatesEmpty ==
    (pc = "call" /\ GoalUnreachable) ~> (pc = "done" /\ ret = << >>)

C2_Witness ==
    /\ pc = "done"
    /\ ret = << >>
    /\ step_size > 0
    /\ obstacles # {}
    /\ GoalUnreachable
    /\ Cardinality(closed_set) >= 2

\* C3 as stated: every waypoint of a returned path other than the final
\* synthesized goal is inside the boundary and collision-free.
C3_AllButGoalValid ==
    pc = "done" => \A i \in 1..(Len(ret) - 1) : Valid(ret[i])

\* C3 amended: every waypoint other than the first (the start, which is
\* never checked) and the final synthesized goal is inside the boundary
\* and collision-free.
C3_InteriorValid ==
    pc = "done" => \A i \in 2..(Len(ret) - 1) : Valid(ret[i])

\* a returned path with an interior waypoint that has an obstacle among
\* the neighbour positions of one of its waypoints
C3_Witness ==
    /\ pc = "done"
    /\ Len(ret) >= 4
    /\ Valid(start_pos)
    /\ \E i \in 1..(Len(ret) - 1), o \in obstacles :
         \A a \in 1..3 : o[a] - ret[i][a] \in {-step_size, 0, step_size}

IsOffset(p, q) ==
    /\ p # q
    /\ \A a \in 1..3 : q[a] - p[a] \in {-step_size, 0, step_size}

\* C4: in a returned path every consecutive pair except the last differs by
\* one of the 26 offsets, and the last pair is less than step apart.
C4_SegmentsAreOffsets ==
    (pc = "done" /\ ret # << >>)
    => /\ Len(ret) >= 2
       /\ \A i \in 1..(Len(ret) - 2) : IsOffset(ret[i], ret[i + 1])
       /\ Dist2(ret[Len(ret) - 1], ret[Len(ret)]) < Sq(step_size)

C4_Witness ==
    /\ pc = "done"
    /\ Len(ret) >= 4
    /\ ret[Len(ret)] # ret[Len(ret) - 1]

\* C8: a call with step_size <= 0 fails fast; it never runs the search to a
\* return.
C8_NonPositiveStepRejected == step_size <= 0 => pc # "done"

\* C10: a popped node that is not at the goal and whose key is closed is
\* dropped without any environment query, push or change to the closed set;
\* the closed set only grows; no key is expanded twice.
C10_ClosedKeysExpandedOnce ==
    [][ /\ closed_set \subseteq closed_set'
        /\ \A n \in open_list \ open_list' :
             (get_dist(get_pos(n), goal_pos) >= step_size * FScale
                 /\ node_key(n) \in closed_set)
             => /\ open_list' = open_list \ {n}
                /\ env_queries' = env_queries
                /\ closed_set' = closed_set
                /\ expanded' = expanded
                /\ pc' = "loop"
        /\ \A e \in BagToSet(expanded') :
             /\ CopiesIn(e, expanded') = 1
             /\ \A d \in BagToSet(expanded') : d[1] = e[1] => d = e
      ]_vars

\* a node was dropped although it reached its key with a lower g than the
\* node that closed the key
C10_Witness ==
    /\ step_size > 0
    /\ \E sk \in skipped, e \in BagToSet(expanded) : sk[1] = e[1] /\ sk[2] < e[2]

----------------------------------------------------------------------------
(* Properties of TrajectoryGenerator *)

Constructed == tpc \in {"ready", "solved", "raised"}

\* C5: after preprocessing the first input waypoint is retained and no two
\* consecutive retained points are within the threshold of each other.
C5_NoCloseNeighboursRetained ==
    (Constructed /\ Len(raw_path) > 0)
    => /\ Len(path) >= 1
       /\ path[1] = raw_path[1]
       /\ \A i \in 1..(Len(path) - 1) : FarApart(path[i], path[i + 1])

\* C6: with fewer than 2 retained waypoints the constructor does not raise,
\* fits no spline, and every solve(dt) returns four empty sequences.
C6_DegenerateIsEmpty ==
    (Constructed /\ Len(path) < 2)
    => /\ tpc # "raised"
       /\ ~cs_fit
       /\ tpc = "solved" => sol = << << >>, << >>, << >>, << >> >>

C6_Witness ==
    /\ tpc = "solved"
    /\ Len(raw_path) >= 2
    /\ Len(path) = 1

\* C7: for at least 2 retained waypoints, solve(dt) returns timestamps that
\* start at 0, advance by dt, and end exactly at the final knot time, which
\* is neither duplicated nor exceeded.
C7_TimestampsEndAtFinalKnot ==
    (Constructed /\ Len(path) >= 2 /\ dt_arg # 0)
    => /\ tpc = "solved"
       /\ LET t == sol[1]
              n == Len(sol[1])
          IN  /\ n >= 2
              /\ t[1] = 0
              /\ t[n] = time_knots[Len(time_knots)]
              /\ \A i \in 1..(n - 2) : t[i + 1] = t[i] + dt_arg
              /\ t[n - 1] < t[n]
              /\ t[n] - t[n - 1] <= dt_arg
              /\ Len(sol[2]) = n /\ Len(sol[3]) = n /\ Len(sol[4]) = n

\* dt divides the total duration evenly and there are interior strides
C7_Witness ==
    /\ tpc = "solved"
    /\ Len(path) >= 2
    /\ time_knots[Len(time_knots)] % dt_arg = 0
    /\ Len(sol[1]) >= 4

\* C9: with at least 2 retained waypoints, time_knots has one entry per
\* retained waypoint, starts at 0 and is strictly increasing.
C9_TimeKnotsIncreasing ==
    (Constructed /\ Len(path) >= 2)
    => /\ Len(time_knots) = Len(path)
       /\ time_knots[1] = 0
       /\ \A i \in 1..(Len(time_knots) - 1) : time_knots[i] < time_knots[i + 1]
       /\ tpc # "raised"

\* two identical retained points: only the floor keeps the knots apart
C9_Witness ==
    /\ tpc = "ready"
    /\ Len(path) >= 2
    /\ \E i \in 1..(Len(path) - 1) : path[i] = path[i + 1]

====
